---- MODULE Spec2Model ----
(***************************************************************************)
(* Model of the Calamares "mount" job module                               *)
(* (src/usr/lib/calamares/modules/mount/main.py).                          *)
(*                                                                         *)
(* run() is a sequential procedure over unreliable external commands.      *)
(* The model is a state machine whose steps are the external calls of      *)
(* run(), mount_partition(), mount_zfs() and err(); the result of every    *)
(* external call (mount, umount, btrfs, zpool, zfs, swapon, makedirs) is   *)
(* chosen by the environment.                                              *)
(*                                                                         *)
(* Strings that the code compares lexically or by prefix (mount points,    *)
(* device names, directories) are sequences of one-character strings.      *)
(* Strings that the code only compares for equality are TLA+ strings.      *)
(* A comma-joined option string is the sequence of its comma-separated     *)
(* fields, so "" is <<"">> and "a,b" is <<"a", "b">>.                      *)
(***************************************************************************)
EXTENDS Integers, Sequences, FiniteSets, TLC

\* ------------------------------------------------------------------------
\* Bounds of the model
\* ------------------------------------------------------------------------

\* Largest number of entries of globalstorage["partitions"].
MaxParts == 2

\* Largest number of external calls that fail in one run.
MaxFaults == 2

\* ------------------------------------------------------------------------
\* Strings
\* ------------------------------------------------------------------------

\* The characters used, in code-point order (Python compares str by code point).
Chars ==
    << "-", "/", "0", "1", "2", "3", "@",
       "a", "b", "c", "d", "e", "f", "g", "h", "i", "j", "k", "l", "m",
       "n", "o", "p", "q", "r", "s", "t", "u", "v", "w", "x", "y", "z" >>

Ord(c) == CHOOSE i \in 1..Len(Chars) : Chars[i] = c

Digits == {"0", "1", "2", "3"}

RECURSIVE StrLess(_, _)
\* a < b for Python str
StrLess(a, b) ==
    IF b = <<>> THEN FALSE
    ELSE IF a = <<>> THEN TRUE
    ELSE IF Head(a) = Head(b) THEN StrLess(Tail(a), Tail(b))
    ELSE Ord(Head(a)) < Ord(Head(b))

StrLeq(a, b) == a = b \/ StrLess(a, b)

\* s.startswith(prefix)
StartsWith(s, prefix) ==
    /\ Len(prefix) <= Len(s)
    /\ SubSeq(s, 1, Len(prefix)) = prefix

RECURSIVE LastSlash(_)
\* index of the last "/" of s, 0 when there is none
LastSlash(s) ==
    IF s = <<>> THEN 0
    ELSE IF s[Len(s)] = "/" THEN Len(s)
    ELSE LastSlash(SubSeq(s, 1, Len(s) - 1))

\* os.path.basename(s)
Basename(s) == SubSeq(s, LastSlash(s) + 1, Len(s))

RECURSIVE StripDigits(_)
\* s without its trailing digits
StripDigits(s) ==
    IF s # <<>> /\ s[Len(s)] \in Digits
    THEN StripDigits(SubSeq(s, 1, Len(s) - 1))
    ELSE s

\* ",".join(items), as the sequence of the comma-separated fields of the result
Join(items) == IF items = <<>> THEN << "" >> ELSE items

\* the string "defaults"
Defaults == << "defaults" >>

\* ------------------------------------------------------------------------
\* Paths
\* ------------------------------------------------------------------------

Root == << "/" >>
Boot == << "/", "b", "o", "o", "t" >>
BootEfi == << "/", "b", "o", "o", "t", "/", "e", "f", "i" >>
Home == << "/", "h", "o", "m", "e" >>
Data == << "/", "d", "a", "t", "a" >>
Dev == << "/", "d", "e", "v" >>
Proc == << "/", "p", "r", "o", "c" >>
Swap == << "/", "s", "w", "a", "p" >>
Var == << "/", "v", "a", "r" >>

\* tempfile.mkdtemp(prefix="calamares-root-"): /tmp/calamares-root-x
root_mount_point ==
    << "/", "t", "m", "p", "/", "c", "a", "l", "a", "m", "a", "r", "e", "s",
       "-", "r", "o", "o", "t", "-", "x" >>

\* tempfile.TemporaryDirectory(prefix="calam-btrfs-"): /tmp/calam-btrfs-y
setup_dir ==
    << "/", "t", "m", "p", "/", "c", "a", "l", "a", "m", "-", "b", "t", "r",
       "f", "s", "-", "y" >>

\* The directory a path names: a trailing "/" does not change it.
Norm(path) ==
    IF Len(path) > 1 /\ path[Len(path)] = "/"
    THEN SubSeq(path, 1, Len(path) - 1)
    ELSE path

\* anc is a strict path ancestor of d (both absolute, without trailing "/")
IsAncestor(anc, d) ==
    /\ anc # d
    /\ \/ anc = Root
       \/ StartsWith(d, anc \o << "/" >>)

\* ------------------------------------------------------------------------
\* Python values
\* ------------------------------------------------------------------------

\* d.get(key, default) for a dict d
Get(d, key, default) == IF key \in DOMAIN d THEN d[key] ELSE default

\* a list from which nothing is taken
KeepAll(list, x) == list

\* the list without its first occurrence of x (list.remove)
RECURSIVE Remove(_, _)
Remove(list, x) ==
    IF list = <<>> THEN <<>>
    ELSE IF Head(list) = x THEN Tail(list)
    ELSE << Head(list) >> \o Remove(Tail(list), x)

\* the list without its last occurrence of x
RECURSIVE RemoveLast(_, _)
RemoveLast(list, x) ==
    IF list = <<>> THEN <<>>
    ELSE IF list[Len(list)] = x THEN SubSeq(list, 1, Len(list) - 1)
    ELSE RemoveLast(SubSeq(list, 1, Len(list) - 1), x) \o << list[Len(list)] >>

\* the elements of a list, as a set
Elems(list) == { list[i] : i \in 1..Len(list) }

\* str.lower() on the filesystem names that occur
Lower(s) ==
    CASE s = "FAT32" -> "fat32"
      [] s = "NTFS" -> "ntfs"
      [] OTHER -> s

\* ------------------------------------------------------------------------
\* Sorting
\* ------------------------------------------------------------------------

\* the sort key of x: x[field], or x itself when field is ""
KeyOf(x, field) == IF field = "" THEN x ELSE x[field]

\* x put into the key-sorted list after every element whose key is <= x's key
RECURSIVE InsertByKey(_, _, _)
InsertByKey(list, x, field) ==
    IF list = <<>> THEN << x >>
    ELSE IF StrLeq(KeyOf(list[Len(list)], field), KeyOf(x, field)) THEN Append(list, x)
    ELSE Append(InsertByKey(SubSeq(list, 1, Len(list) - 1), x, field), list[Len(list)])

\* list.sort(key=lambda x: x[field]): ascending and stable
RECURSIVE SortByKey(_, _)
SortByKey(list, field) ==
    IF list = <<>> THEN <<>>
    ELSE InsertByKey(SortByKey(SubSeq(list, 1, Len(list) - 1), field),
                     list[Len(list)], field)

\* [list[n], ..., list[1]]
RECURSIVE Reverse(_)
Reverse(list) ==
    IF list = <<>> THEN <<>>
    ELSE Append(Reverse(Tail(list)), Head(list))

\* the ledger from its last append to its first
LastAppendedFirst(am) == Reverse(am)

\* a rollback that visits no entry of the ledger
VisitNothing(am) == <<>>

\* the order in which err() visits the ledger: sorted(active_mounts, reverse=True)
RollbackOrder(am) == Reverse(SortByKey(am, ""))

\* the physical / extra list of run(): the entries with a non-empty mountPoint,
\* sorted by mountPoint
HasMountPoint(p) == "mountPoint" \in DOMAIN p /\ p.mountPoint # <<>>

\* the entries with a mountPoint in the order of the list they come from
InListOrder(list) == SelectSeq(list, HasMountPoint)

Schedule(list) == SortByKey(SelectSeq(list, HasMountPoint), "mountPoint")

\* ------------------------------------------------------------------------
\* Mount Option Resolver
\* ------------------------------------------------------------------------

Mmcblk == << "m", "m", "c", "b", "l", "k" >>
Nvme == << "n", "v", "m", "e" >>

\* re.sub("p[0-9]+$", "", name)
StripPartSuffix(name) ==
    LET stem == StripDigits(name)
    IN  IF stem # name /\ stem # <<>> /\ stem[Len(stem)] = "p"
        THEN SubSeq(stem, 1, Len(stem) - 1)
        ELSE name

disk_name_for_partition(partition) ==
    LET name == Basename(partition.device)
    IN  IF StartsWith(name, Mmcblk) \/ StartsWith(name, Nvme)
        THEN StripPartSuffix(name)
        ELSE StripDigits(name)

\* a query that takes every disk for a rotational one
NeverSsd(partition, sysfs) == FALSE

\* sysfs is the content of /sys/block/<disk>/queue/rotational for the disks
\* that have the file; a failed read gives False.
is_ssd_disk(partition, sysfs) ==
    /\ "device" \in DOMAIN partition
    /\ disk_name_for_partition(partition) \in DOMAIN sysfs
    /\ sysfs[disk_name_for_partition(partition)] = "0\n"

\* next((x for x in mount_options if x["filesystem"] == fs), None), as a list
\* with at most one element
FirstRule(mount_options, fs) ==
    LET hits == { i \in 1..Len(mount_options) : mount_options[i].filesystem = fs }
    IN  IF hits = {} THEN <<>>
        ELSE << mount_options[CHOOSE i \in hits : \A j \in hits : i <= j] >>

\* mount_options is a list with at most one element: <<>> for None, else
\* << the rule table >>.  efi_location is <<>> for None.
get_mount_options(filesystem, mount_options, partition, efi_location, sysfs) ==
    IF "options" \in DOMAIN partition THEN Join(partition.options)
    ELSE IF mount_options = <<>> THEN Defaults
    ELSE
      LET table == mount_options[1]
          effective_filesystem ==
              IF efi_location # <<>> /\ partition.mountPoint = efi_location
              THEN "efi" ELSE filesystem
          exact == FirstRule(table, effective_filesystem)
          options == IF exact # <<>> THEN exact ELSE FirstRule(table, "default")
      IN  IF options = <<>> THEN Defaults
          ELSE
            LET rule == options[1]
                option_items ==
                    Get(rule, "options", <<>>) \o
                    (IF is_ssd_disk(partition, sysfs)
                     THEN (IF StartsWith(Basename(partition.device), Nvme)
                           THEN Get(rule, "nvmeOptions", <<>>)
                           ELSE Get(rule, "ssdOptions", <<>>))
                     ELSE Get(rule, "hddOptions", <<>>))
            IN  IF option_items # <<>> THEN Join(option_items) ELSE Defaults

\* ------------------------------------------------------------------------
\* Btrfs Subvolume Planner
\* ------------------------------------------------------------------------

DefaultSubvolumes ==
    << [mountPoint |-> Root, subvolume |-> "/@"],
       [mountPoint |-> Home, subvolume |-> "/@home"] >>

\* swap_choice and swap_choice.get("swap", None) == "file"
SwapIsFile(gs) ==
    /\ "partitionChoices" \in DOMAIN gs
    /\ Get(gs["partitionChoices"], "swap", "") = "file"

\* libcalamares.job.configuration.get("btrfsSwapSubvol", "/@swap")
SwapSubvol(conf) == Get(conf, "btrfsSwapSubvol", "/@swap")

\* the list get_btrfs_subvolumes(partitions) returns
get_btrfs_subvolumes(partitions, conf, gs) ==
    LET configured == Get(conf, "btrfsSubvolumes", <<>>)
        btrfs_subvolumes == IF configured = <<>> THEN DefaultSubvolumes ELSE configured
        non_root_partition_mounts ==
            { partitions[i].mountPoint : i \in
                { k \in 1..Len(partitions) :
                    /\ "mountPoint" \in DOMAIN partitions[k]
                    /\ partitions[k].mountPoint # Root } }
        Keep(s) ==
            \/ s.mountPoint = Root
            \/ ~ \E m \in non_root_partition_mounts :
                   /\ m # <<>>
                   /\ \/ s.mountPoint = m
                      \/ StartsWith(s.mountPoint, m \o << "/" >>)
        kept == SelectSeq(btrfs_subvolumes, Keep)
    IN  IF SwapIsFile(gs)
        THEN Append(kept, [mountPoint |-> Swap, subvolume |-> SwapSubvol(conf)])
        ELSE kept

\* globalstorage after get_btrfs_subvolumes(partitions)
PlannerInsert(conf, gs) ==
    IF SwapIsFile(gs) THEN ("btrfsSwapSubvol" :> SwapSubvol(conf)) @@ gs ELSE gs

\* ------------------------------------------------------------------------
\* Inputs: shared run state, job configuration and the machine
\* ------------------------------------------------------------------------

EmptyDict == [k \in {} |-> 0]

DevSda1 == << "/", "d", "e", "v", "/", "s", "d", "a", "1" >>
DevSda2 == << "/", "d", "e", "v", "/", "s", "d", "a", "2" >>
DevSda3 == << "/", "d", "e", "v", "/", "s", "d", "a", "3" >>
DevSdb1 == << "/", "d", "e", "v", "/", "s", "d", "b", "1" >>
DevSdb2 == << "/", "d", "e", "v", "/", "s", "d", "b", "2" >>
DevNvme == << "/", "d", "e", "v", "/", "n", "v", "m", "e", "0", "n", "1", "p", "2" >>
DevMmc == << "/", "d", "e", "v", "/", "m", "m", "c", "b", "l", "k", "0", "p", "1" >>
DevMapper == << "/", "d", "e", "v", "/", "m", "a", "p", "p", "e", "r" >>
LuksName == << "l", "u", "k", "s", "-", "a" >>
Efivars ==
    << "/", "s", "y", "s", "/", "f", "i", "r", "m", "w", "a", "r", "e", "/",
       "e", "f", "i", "/", "e", "f", "i", "v", "a", "r", "s" >>

\* The partitions that globalstorage["partitions"] is drawn from (in this
\* order, which is not the order of the mount points).
PartitionPool ==
    << [device |-> DevSda3, fs |-> "btrfs", mountPoint |-> Home],
       [device |-> DevSda2, fs |-> "ext4", mountPoint |-> Root],
       [device |-> DevNvme, fs |-> "btrfs", mountPoint |-> Root],
       [device |-> DevSda1, fs |-> "FAT32", mountPoint |-> BootEfi],
       [device |-> DevMmc, fs |-> "exfat", mountPoint |-> Boot],
       [device |-> DevSdb1, fs |-> "ntfs", mountPoint |-> Boot],
       [device |-> DevSdb2, fs |-> "fat16", mountPoint |-> Data],
       [device |-> DevSdb1, fs |-> "unformatted", mountPoint |-> Data],
       [device |-> DevSdb2, fs |-> "linuxswap", mountPoint |-> <<>>,
        claimed |-> TRUE, fsName |-> "linuxswap"],
       [device |-> DevSdb1, fs |-> "zfs", mountPoint |-> Root],
       [device |-> DevSdb2, fs |-> "zfs", mountPoint |-> Data],
       [device |-> DevSdb1, fs |-> "ext4", mountPoint |-> Home,
        luksMapperName |-> LuksName] >>

\* The extraMounts of mount.conf (not in the order of the mount points).
ExtraMounts ==
    << [device |-> << "p", "r", "o", "c" >>, fs |-> "proc", mountPoint |-> Proc],
       [device |-> Dev, mountPoint |-> Dev, options |-> << "bind" >>],
       [device |-> << "e", "f", "i", "v", "a", "r", "f", "s" >>, fs |-> "efivarfs",
        mountPoint |-> Efivars, efi |-> TRUE] >>

\* the elements of pool at the indices idx, in the order of the pool
RECURSIVE Pick(_, _)
Pick(pool, idx) ==
    IF idx = {} THEN <<>>
    ELSE LET i == CHOOSE k \in idx : \A j \in idx : k <= j
         IN  << pool[i] >> \o Pick(pool, idx \ {i})

\* the lists of at most max elements of pool
ListsFrom(pool, max) ==
    { Pick(pool, idx) : idx \in { S \in SUBSET (1..Len(pool)) : Cardinality(S) <= max } }

PartitionLists == ListsFrom(PartitionPool, MaxParts)

\* configuration["extraMounts"]: none, or the list of mount.conf
ExtraLists == { <<>>, ExtraMounts }

\* the rule table of mount.conf
MountOptionsTable ==
    << [filesystem |-> "default", options |-> << "defaults" >>],
       [filesystem |-> "efi", options |-> << "defaults", "umask=0077" >>],
       [filesystem |-> "btrfs", options |-> << "defaults", "noatime" >>,
        ssdOptions |-> << "discard=async" >>, hddOptions |-> << "autodefrag" >>,
        nvmeOptions |-> << "ssd" >>] >>

DiskNames ==
    { << "s", "d", "a" >>, << "s", "d", "b" >>,
      << "n", "v", "m", "e", "0", "n", "1" >>,
      << "m", "m", "c", "b", "l", "k", "0" >> }

\* The machine and its configuration: firmware, EFI system partition, rule
\* table and the rotational flags of the disks.
Platforms ==
    { [gs |-> ("firmwareType" :> "bios"),
       conf |-> EmptyDict,
       sysfs |-> EmptyDict],
      [gs |-> ("firmwareType" :> "efi") @@ ("efiSystemPartition" :> BootEfi),
       conf |-> ("mountOptions" :> MountOptionsTable),
       sysfs |-> [d \in DiskNames |-> "0\n"]],
      [gs |-> ("firmwareType" :> "efi"),
       conf |-> ("mountOptions" :> MountOptionsTable),
       sysfs |-> [d \in DiskNames |-> "1\n"]] }

\* the partition or extra mount is treated differently on EFI and BIOS machines
FirmwareMatters(p) ==
    \/ Lower(Get(p, "fs", "")) \in {"fat16", "fat32", "exfat", "ntfs", "ext2"}
    \/ Get(p, "efi", FALSE)

IsBtrfsRoot(p) == Lower(Get(p, "fs", "")) = "btrfs" /\ Get(p, "mountPoint", <<>>) = Root

IsZfs(p) == Lower(Get(p, "fs", "")) = "zfs"

\* Subvolume layout, swap choice and the subvolumes already on the device.
BtrfsSetups ==
    { [gs |-> EmptyDict, conf |-> EmptyDict, on_disk |-> {}],
      [gs |-> ("partitionChoices" :> [swap |-> "file"]),
       conf |-> EmptyDict, on_disk |-> {"/@"}],
      [gs |-> EmptyDict,
       conf |-> ("btrfsSubvolumes" :> << [mountPoint |-> Root, subvolume |-> ""] >>),
       on_disk |-> {}],
      [gs |-> EmptyDict,
       conf |-> ("btrfsSubvolumes" :>
                   << [mountPoint |-> Home, subvolume |-> "/@home"],
                      [mountPoint |-> Root, subvolume |-> "/@"],
                      [mountPoint |-> Var, subvolume |-> ""] >>),
       on_disk |-> {}],
      [gs |-> EmptyDict,
       conf |-> ("btrfsSubvolumes" :> << [mountPoint |-> Home, subvolume |-> "/@home"] >>),
       on_disk |-> {}] }

\* The ZFS metadata left in shared run state by the zfs module.  canMount is
\* "noauto", or "True" / "False" for the Python booleans.
ZfsSetups ==
    { EmptyDict,
      ("zfsPoolInfo" :> << [mountpoint |-> Home, poolName |-> "zhome", dsName |-> "home"] >>),
      ("zfsPoolInfo" :>
          << [mountpoint |-> Root, poolName |-> "zpcala", dsName |-> "ROOT"],
             [mountpoint |-> Data, poolName |-> "zdata", dsName |-> "data"] >>)
        @@ ("zfsInfo" :>
          << [mountpoint |-> Root, encrypted |-> TRUE, passphrase |-> "secret"] >>)
        @@ ("zfsDatasets" :>
          << [zpool |-> "zpcala", dsName |-> "ROOT/home", mountpoint |-> Home,
              canMount |-> "True"],
             [zpool |-> "zpcala", dsName |-> "ROOT/distro/root", mountpoint |-> Root,
              canMount |-> "noauto"],
             [zpool |-> "zpcala", dsName |-> "ROOT/distro", mountpoint |-> Var,
              canMount |-> "False"],
             [zpool |-> "zdata", dsName |-> "data", mountpoint |-> Data,
              canMount |-> "noauto"] >>) }

\* the setups that matter for a partition list
BtrfsSetupsFor(parts) ==
    IF \E i \in 1..Len(parts) : IsBtrfsRoot(parts[i])
    THEN BtrfsSetups
    ELSE { [gs |-> EmptyDict, conf |-> EmptyDict, on_disk |-> {}] }

PlatformsFor(parts, extras) ==
    IF \E p \in Elems(parts) \cup Elems(extras) : FirmwareMatters(p)
    THEN Platforms
    ELSE { plat \in Platforms : "efiSystemPartition" \in DOMAIN plat.gs }

ZfsSetupsFor(parts) ==
    IF \E i \in 1..Len(parts) : IsZfs(parts[i]) THEN ZfsSetups ELSE { EmptyDict }

\* ------------------------------------------------------------------------
\* State
\* ------------------------------------------------------------------------

VARIABLES
    globalstorage,       \* libcalamares.globalstorage: key -> value
    configuration,       \* libcalamares.job.configuration: key -> value
    sysfs,               \* disk name -> content of queue/rotational
    subvol_on_disk,      \* the paths that exist on the Btrfs device
    mounted,             \* the mount table: the mounted directories, oldest first
    dirs,                \* the directories created by this run
    cmds,                \* the external commands issued so far, with their results
    faults,              \* the number of external calls that have failed
    entry,               \* the function that was called
    pc,                  \* the position in the code
    result,              \* how the call ended ("" while it runs)
    failure,             \* the message of the fatal failure being handled ("" if none)
    efi_location,        \* run(): efi_location (<<>> is None)
    extra_mounts,        \* run(): extra_mounts
    phase,               \* run(): "physical" or "extra"
    todo,                \* run(): the entries of the current list still to process
    mount_options_list,  \* run(): mount_options_list
    active_mounts,       \* run(): active_mounts
    partition,           \* mount_partition(): partition
    fstype,              \* mount_partition(): fstype
    device,              \* mount_partition(): device
    mount_options_string, \* mount_partition(): mount_options_string
    btrfs_subvolumes,    \* mount_partition(): btrfs_subvolumes
    rest,                \* the items of the current for loop still to visit
    pending,             \* the exception raised inside try, while finally runs
    zfs_pool,            \* mount_zfs(): pool_name and ds_name
    err_todo,            \* err(): the ledger entries still to visit
    err_caller,          \* err(): the function that called it
    processed            \* the calls of mount_partition() made by run(), in order

vars ==
    << globalstorage, configuration, sysfs, subvol_on_disk, mounted, dirs, cmds,
       faults, entry, pc, result, failure, efi_location, extra_mounts, phase, todo,
       mount_options_list, active_mounts, partition, fstype, device,
       mount_options_string, btrfs_subvolumes, rest, pending, zfs_pool, err_todo,
       err_caller, processed >>

\* never written
inputs == << configuration, sysfs, entry >>

\* written only when run() calls mount_partition()
history == << processed >>

\* the locals of run()
run_locals == << efi_location, extra_mounts, phase, todo >>

\* the locals of mount_partition() and mount_zfs()
mp_locals ==
    << partition, fstype, device, mount_options_string, btrfs_subvolumes, rest,
       pending, zfs_pool >>

\* the control state
control == << pc, result, failure, err_todo, err_caller >>

\* the world outside the process
world == << subvol_on_disk, mounted, dirs, cmds, faults >>

NoPartition == [mountPoint |-> <<>>]

NoPool == [poolName |-> "", dsName |-> ""]

\* ------------------------------------------------------------------------
\* The environment
\* ------------------------------------------------------------------------

\* the exit statuses an external call can have after n more failures
StatusAfter(n) == IF faults + n < MaxFaults THEN {0, 1} ELSE {0}

Status == StatusAfter(0)

\* os.path.ismount(path)
ismount(path) == Norm(path) \in Elems(mounted)

\* the mount table after a successful mount on path
MountAt(table, path) == Append(table, Norm(path))

\* the mount table after a successful umount of path
UmountAt(table, path) == RemoveLast(table, Norm(path))

MountCmd(dev, target, fs, opts, rc) ==
    [cmd |-> "mount", device |-> dev, target |-> target, fstype |-> fs,
     options |-> opts, rc |-> rc]

UmountCmd(target, by, rc) == [cmd |-> "umount", target |-> target, by |-> by, rc |-> rc]

LazyUmountCmd(target, by, rc) ==
    [cmd |-> "umount -l", target |-> target, by |-> by, rc |-> rc]

ToolCmd(name, arg, rc) == [cmd |-> name, arg |-> arg, rc |-> rc]

\* zfs mount of a dataset, which the pool (imported with -R) puts on target
ZfsMountCmd(pool, dataset, target, rc) ==
    [cmd |-> "zfs mount", arg |-> << pool, dataset >>, target |-> target, rc |-> rc]

\* ------------------------------------------------------------------------
\* Control flow
\* ------------------------------------------------------------------------

\* continue at position p
Goto(p) == /\ pc' = p
           /\ UNCHANGED << result, failure, err_todo, err_caller >>

\* mount_partition() returns
Return == Goto(IF entry = "run" THEN "loop" ELSE "returned")

\* an exception that is dropped: run() goes on with its next entry
Swallow(message) ==
    /\ pc' = "loop"
    /\ failure' = message
    /\ UNCHANGED << result, err_todo, err_caller >>

\* an exception leaves mount_partition()
Raise(message) ==
    /\ pc' = "except"
    /\ failure' = message
    /\ UNCHANGED << result, err_todo, err_caller >>

\* err(message, am) is called by mount_partition()
CallErr(message, am) ==
    /\ pc' = "err"
    /\ failure' = message
    /\ err_todo' = RollbackOrder(am)
    /\ err_caller' = "mount_partition"
    /\ UNCHANGED result

\* ------------------------------------------------------------------------
\* Initial states
\* ------------------------------------------------------------------------

InitLocals ==
    /\ dirs = {}
    /\ cmds = <<>>
    /\ faults = 0
    /\ result = ""
    /\ failure = ""
    /\ efi_location = <<>>
    /\ extra_mounts = <<>>
    /\ phase = "physical"
    /\ todo = <<>>
    /\ mount_options_list = <<>>
    /\ fstype = ""
    /\ device = <<>>
    /\ mount_options_string = <<>>
    /\ btrfs_subvolumes = <<>>
    /\ rest = <<>>
    /\ pending = ""
    /\ zfs_pool = NoPool
    /\ err_todo = <<>>
    /\ err_caller = ""
    /\ processed = <<>>

\* globalstorage["partitions"]: the list, and for no partitions also no key
PartitionsEntry(parts) ==
    IF parts = <<>> THEN { EmptyDict, ("partitions" :> <<>>) }
    ELSE { ("partitions" :> parts) }

\* run() is called on a fresh target
Init ==
    /\ \E parts \in PartitionLists, extras \in ExtraLists :
         \E plat \in PlatformsFor(parts, extras), b \in BtrfsSetupsFor(parts), z \in ZfsSetupsFor(parts) :
           /\ \E listed \in PartitionsEntry(parts) :
                  globalstorage = listed @@ plat.gs @@ b.gs @@ z
           /\ configuration = ("extraMounts" :> extras) @@ plat.conf @@ b.conf
           /\ sysfs = plat.sysfs
           /\ subvol_on_disk = b.on_disk
    /\ mounted = <<>>
    /\ entry = "run"
    /\ pc = "run"
    /\ active_mounts = <<>>
    /\ partition = NoPartition
    /\ InitLocals

\* ------------------------------------------------------------------------
\* run()
\* ------------------------------------------------------------------------

IsClaimedSwap(p) == p.fs = "linuxswap" /\ Get(p, "claimed", FALSE)

IsPlainSwap(p) == IsClaimedSwap(p) /\ p.fsName = "linuxswap"

IsLuksSwap(p) == IsClaimedSwap(p) /\ p.fsName \in {"luks", "luks2"}

\* "/dev/mapper/" + p["luksMapperName"]
MapperDevice(p) == DevMapper \o << "/" >> \o p.luksMapperName

\* swap_devices of run()
SwapDevices(partitions) ==
    LET plain_swap == SelectSeq(partitions, IsPlainSwap)
        luks_swap == SelectSeq(partitions, IsLuksSwap)
    IN  [i \in 1..Len(plain_swap) |-> plain_swap[i].device]
          \o [i \in 1..Len(luks_swap) |-> MapperDevice(luks_swap[i])]

\* the swapon commands of enable_swap_partition(devices) when the first n
\* succeed: the loop ends with the first one that fails
SwaponCmds(devices, n) ==
    [i \in 1..(IF n < Len(devices) THEN n + 1 ELSE n) |->
        ToolCmd("swapon", devices[i], IF i <= n THEN 0 ELSE 1)]

NotEfi(m) == ~ Get(m, "efi", FALSE)

\* a test that takes every list for a list with partitions
NeverEmpty(partitions) == FALSE

\* if not partitions: value("partitions") is None (<<>> here) or an empty list
NoPartitions(partitions) == partitions = <<>>

\* run(), up to the first call of mount_partition()
RunStart ==
    /\ pc = "run"
    /\ LET partitions == Get(globalstorage, "partitions", <<>>)
           swap_devices == SwapDevices(partitions)
           configured == Get(configuration, "extraMounts", <<>>)
           is_efi == Get(globalstorage, "firmwareType", "") = "efi"
       IN  IF NoPartitions(partitions)
           THEN /\ pc' = "done"
                /\ result' = "Configuration Error"
                /\ UNCHANGED << failure, err_todo, err_caller, run_locals, world >>
           ELSE /\ \E n \in 0..Len(swap_devices) :
                     /\ n < Len(swap_devices) => 1 \in Status
                     /\ cmds' = cmds \o SwaponCmds(swap_devices, n)
                     /\ faults' = faults + (IF n < Len(swap_devices) THEN 1 ELSE 0)
                /\ dirs' = dirs \cup {root_mount_point}
                /\ efi_location' =
                       IF is_efi THEN Get(globalstorage, "efiSystemPartition", <<>>)
                       ELSE <<>>
                /\ extra_mounts' =
                       IF is_efi THEN configured ELSE SelectSeq(configured, NotEfi)
                /\ phase' = "physical"
                /\ todo' = Schedule(partitions)
                /\ Goto("loop")
                /\ UNCHANGED << subvol_on_disk, mounted >>
    /\ UNCHANGED << globalstorage, inputs, history, mount_options_list, active_mounts, mp_locals >>

\* for p in physical / for p in extra: the call of mount_partition()
NextPartition ==
    /\ pc = "loop"
    /\ todo # <<>>
    /\ partition' = Head(todo)
    /\ todo' = Tail(todo)
    /\ processed' = Append(processed, [phase |-> phase, mountPoint |-> Head(todo).mountPoint])
    /\ Goto("mount_partition")
    /\ UNCHANGED << globalstorage, inputs, world, efi_location, extra_mounts, phase,
                    mount_options_list, active_mounts, fstype, device,
                    mount_options_string, btrfs_subvolumes, rest, pending, zfs_pool >>

\* the physical list is done: extra is built and sorted
StartExtra ==
    /\ pc = "loop"
    /\ todo = <<>>
    /\ phase = "physical"
    /\ phase' = "extra"
    /\ todo' = Schedule(extra_mounts)
    /\ Goto("loop")
    /\ UNCHANGED << globalstorage, inputs, history, world, efi_location, extra_mounts,
                    mount_options_list, active_mounts, mp_locals >>

\* both lists are done: the three inserts at the end of run()
Publish ==
    /\ pc = "loop"
    /\ todo = <<>>
    /\ phase = "extra"
    /\ globalstorage' =
           ("rootMountPoint" :> root_mount_point)
             @@ ("mountOptionsList" :> mount_options_list)
             @@ ("extraMounts" :> extra_mounts)
             @@ globalstorage
    /\ pc' = "done"
    /\ result' = "ok"
    /\ UNCHANGED << failure, err_todo, err_caller, inputs, history, world, run_locals,
                    mount_options_list, active_mounts, mp_locals >>

\* except Exception as e: err(str(e), active_mounts)
RunExcept ==
    /\ pc = "except"
    /\ entry = "run"
    /\ pc' = "err"
    /\ err_todo' = RollbackOrder(active_mounts)
    /\ err_caller' = "run"
    /\ UNCHANGED << result, failure, globalstorage, inputs, history, world, run_locals,
                    mount_options_list, active_mounts, mp_locals >>

\* ------------------------------------------------------------------------
\* err()
\* ------------------------------------------------------------------------

\* the whole list, mounted or not
Unfiltered(list, table) == list

\* the entries of the list from its first mounted one on: the loop of err()
\* passes over an entry that is not mounted without a command
RECURSIVE FromFirstMounted(_, _)
FromFirstMounted(list, table) ==
    IF list = <<>> THEN <<>>
    ELSE IF Norm(Head(list)) \in Elems(table) THEN list
    ELSE FromFirstMounted(Tail(list), table)

\* the loop of err() up to and including its next umount: umount, and
\* umount -l if that fails
ErrStep ==
    /\ pc = "err"
    /\ FromFirstMounted(err_todo, mounted) # <<>>
    /\ LET tmp_dir == Head(FromFirstMounted(err_todo, mounted))
       IN  \E rc \in Status :
             IF rc = 0
             THEN /\ cmds' = Append(cmds, UmountCmd(tmp_dir, err_caller, 0))
                  /\ mounted' = UmountAt(mounted, tmp_dir)
                  /\ UNCHANGED faults
             ELSE \E rc2 \in StatusAfter(1) :
                    /\ cmds' = cmds \o << UmountCmd(tmp_dir, err_caller, rc),
                                          LazyUmountCmd(tmp_dir, err_caller, rc2) >>
                    /\ mounted' = IF rc2 = 0 THEN UmountAt(mounted, tmp_dir)
                                  ELSE mounted
                    /\ faults' = faults + 1 + (IF rc2 = 0 THEN 0 ELSE 1)
    /\ err_todo' = Tail(FromFirstMounted(err_todo, mounted))
    /\ UNCHANGED << pc, result, failure, err_caller, globalstorage, inputs, history,
                    subvol_on_disk, dirs, run_locals, mount_options_list,
                    active_mounts, mp_locals >>

\* raise Exception(error_message): to the handler of run() when
\* mount_partition() called err(), to the caller of run() when run() did
ErrRaise ==
    /\ pc = "err"
    /\ FromFirstMounted(err_todo, mounted) = <<>>
    /\ err_todo' = <<>>
    /\ IF err_caller = "run"
       THEN /\ pc' = "done"
            /\ result' = "Exception"
       ELSE /\ pc' = "except"
            /\ UNCHANGED result
    /\ UNCHANGED << failure, err_caller, globalstorage, inputs, history, world,
                    run_locals, mount_options_list, active_mounts, mp_locals >>

\* ------------------------------------------------------------------------
\* mount_partition()
\* ------------------------------------------------------------------------

\* a test that no filesystem name passes
NeverUnformatted(fs) == FALSE

\* the test that makes mount_partition() return without mounting
IsUnformatted(fs) == fs = "unformatted"

LegacyFilesystems == {"fat16", "fat32", "exfat", "ntfs", "ext2"}

BootPaths == {Boot, BootEfi}

\* the test that calls err("Unsupported partition ...")
Unsupported(fs, raw_mount_point, efi) ==
    /\ fs \in LegacyFilesystems
    /\ LET is_boot == raw_mount_point \in BootPaths
       IN  \/ ~ is_boot
           \/ fs \in {"ntfs", "ext2"}
           \/ (fs = "exfat" /\ efi # <<>>)

\* fstype after the test: the name given to the mount executor
ExecutorFstype(fs) ==
    IF fs \in LegacyFilesystems
    THEN (IF fs # "exfat" THEN "vfat" ELSE "exfat")
    ELSE fs

\* device after the luksMapperName test
ExecutorDevice(p) ==
    IF "luksMapperName" \in DOMAIN p THEN MapperDevice(p) ELSE p.device

\* the entries of zfsPoolInfo for the mount point of p
PoolMatches(zfs_pool_list, p) ==
    SelectSeq(zfs_pool_list, LAMBDA zp : zp.mountpoint = p.mountPoint)

\* a ledger that is left as it is
NotLedgered(ledger, mount_point) == ledger

\* am.append(mount_point), before the directory is made and anything mounted
Ledgered(ledger, mount_point) == Append(ledger, mount_point)

\* mount_partition(), from its first line to its first mount command: the
\* ledger append, the directory, the classification of the filesystem, and for
\* zfs the lookup of the pool in mount_zfs()
MountPartition ==
    /\ pc = "mount_partition"
    /\ LET raw_mount_point == partition.mountPoint
           mount_point == root_mount_point \o raw_mount_point
           am == Ledgered(active_mounts, mount_point)
           fs == Lower(Get(partition, "fs", ""))
           zfs_pool_list == Get(globalstorage, "zfsPoolInfo", <<>>)
           hits == PoolMatches(zfs_pool_list, partition)
           efs == ExecutorFstype(fs)
           opts == get_mount_options(
                       efs, IF "mountOptions" \in DOMAIN configuration
                            THEN << configuration["mountOptions"] >> ELSE <<>>,
                       partition, efi_location, sysfs)
           entry_of_list == [mountpoint |-> raw_mount_point, option_string |-> opts]
           partitions == Get(globalstorage, "partitions", <<>>)
           subvolumes == get_btrfs_subvolumes(partitions, configuration, globalstorage)
           two_phase ==
               /\ ~ IsUnformatted(fs)
               /\ ~ Unsupported(fs, raw_mount_point, efi_location)
               /\ efs = "btrfs"
               /\ raw_mount_point = Root
       IN  IF raw_mount_point = <<>>
           THEN /\ Return
                /\ UNCHANGED << globalstorage, world, mount_options_list,
                                active_mounts, fstype, device, mount_options_string,
                                btrfs_subvolumes, zfs_pool >>
           ELSE
             /\ \E made \in {r = 0 : r \in Status} :
                  IF ~ made
                  THEN \* os.makedirs raises
                       /\ Raise("OSError")
                       /\ faults' = faults + 1
                       /\ active_mounts' = am
                       /\ UNCHANGED << globalstorage, dirs, mount_options_list, fstype,
                                       device, mount_options_string, btrfs_subvolumes,
                                       zfs_pool >>
                  ELSE
                    /\ UNCHANGED faults
                    /\ active_mounts' = IF two_phase THEN Append(am, setup_dir) ELSE am
                    /\ fstype' = IF IsUnformatted(fs) \/ Unsupported(fs, raw_mount_point, efi_location)
                                 THEN fs ELSE efs
                    /\ device' = IF IsUnformatted(fs) THEN device
                                 ELSE IF Unsupported(fs, raw_mount_point, efi_location)
                                 THEN partition.device
                                 ELSE ExecutorDevice(partition)
                    /\ CASE IsUnformatted(fs) ->
                              /\ Return
                              /\ dirs' = dirs \cup {Norm(mount_point)}
                              /\ UNCHANGED << globalstorage, mount_options_list,
                                              mount_options_string, btrfs_subvolumes,
                                              zfs_pool >>
                         [] ~ IsUnformatted(fs)
                              /\ Unsupported(fs, raw_mount_point, efi_location) ->
                              /\ CallErr("Unsupported partition", am)
                              /\ dirs' = dirs \cup {Norm(mount_point)}
                              /\ UNCHANGED << globalstorage, mount_options_list,
                                              mount_options_string, btrfs_subvolumes,
                                              zfs_pool >>
                         [] ~ IsUnformatted(fs)
                              /\ ~ Unsupported(fs, raw_mount_point, efi_location)
                              /\ efs = "zfs" ->
                              /\ dirs' = dirs \cup {Norm(mount_point)}
                              /\ IF zfs_pool_list = <<>>
                                 THEN /\ Raise("Internal error mounting zfs datasets")
                                      /\ UNCHANGED zfs_pool
                                 ELSE IF hits = <<>>
                                 THEN /\ Raise("UnboundLocalError")
                                      /\ UNCHANGED zfs_pool
                                 ELSE /\ Goto("zpool_import")
                                      /\ zfs_pool' =
                                           [poolName |-> hits[Len(hits)].poolName,
                                            dsName |-> hits[Len(hits)].dsName]
                              /\ UNCHANGED << globalstorage, mount_options_list,
                                              mount_options_string, btrfs_subvolumes >>
                         [] OTHER ->
                              /\ mount_options_string' = opts
                              /\ mount_options_list' = Append(mount_options_list, entry_of_list)
                              /\ UNCHANGED zfs_pool
                              /\ IF ~ two_phase
                                 THEN /\ Goto("mount")
                                      /\ dirs' = dirs \cup {Norm(mount_point)}
                                      /\ UNCHANGED << globalstorage, btrfs_subvolumes >>
                                 ELSE /\ Goto("scratch_mount")
                                      /\ btrfs_subvolumes' = subvolumes
                                      /\ globalstorage' =
                                           ("btrfsSubvolumes" :> subvolumes)
                                             @@ PlannerInsert(configuration, globalstorage)
                                      /\ dirs' = dirs \cup {Norm(mount_point), setup_dir}
             /\ UNCHANGED << subvol_on_disk, mounted, cmds >>
    /\ UNCHANGED << inputs, history, run_locals, partition, rest, pending >>

\* the mount point of the partition inside the install root
MountPoint == root_mount_point \o partition.mountPoint

\* the standard mount, for everything except a Btrfs root
DirectMount ==
    /\ pc = "mount"
    /\ \E rc \in Status :
         /\ cmds' = Append(cmds, MountCmd(device, MountPoint, fstype,
                                          mount_options_string, rc))
         /\ IF rc # 0
            THEN /\ CallErr("Cannot mount", active_mounts)
                 /\ faults' = faults + 1
                 /\ UNCHANGED mounted
            ELSE /\ Return
                 /\ mounted' = MountAt(mounted, MountPoint)
                 /\ UNCHANGED faults
    /\ UNCHANGED << globalstorage, inputs, history, subvol_on_disk, dirs, run_locals,
                    mount_options_list, active_mounts, mp_locals >>

\* ------------------------------------------------------------------------
\* mount_partition(): the Btrfs root
\* ------------------------------------------------------------------------

\* the raw device is mounted on the scratch directory
ScratchMount ==
    /\ pc = "scratch_mount"
    /\ \E rc \in Status :
         /\ cmds' = Append(cmds, MountCmd(device, setup_dir, fstype, Defaults, rc))
         /\ IF rc # 0
            THEN /\ CallErr("Cannot mount btrfs for subvolume creation", active_mounts)
                 /\ faults' = faults + 1
                 /\ UNCHANGED << mounted, rest >>
            ELSE /\ Goto("create")
                 /\ mounted' = MountAt(mounted, setup_dir)
                 /\ rest' = btrfs_subvolumes
                 /\ UNCHANGED faults
    /\ pending' = ""
    /\ UNCHANGED << globalstorage, inputs, history, subvol_on_disk, dirs, run_locals,
                    mount_options_list, active_mounts, partition, fstype, device,
                    mount_options_string, btrfs_subvolumes, zfs_pool >>

\* a test that finds every path on the device
AlwaysExists(subvolume, on_disk) == TRUE

\* os.path.exists(setup_dir + s["subvolume"])
PathExists(subvolume, on_disk) == subvolume \in on_disk

\* one iteration of the loop that creates the subvolumes, inside try
CreateSubvolume ==
    /\ pc = "create"
    /\ IF rest = <<>>
       THEN /\ Goto("finally")
            /\ UNCHANGED << rest, pending, subvol_on_disk, cmds, faults >>
       ELSE LET s == Head(rest)
            IN  IF s.subvolume = "" \/ PathExists(s.subvolume, subvol_on_disk)
                THEN /\ Goto("create")
                     /\ rest' = Tail(rest)
                     /\ UNCHANGED << pending, subvol_on_disk, cmds, faults >>
                ELSE \E rc \in Status :
                       /\ cmds' = Append(cmds, ToolCmd("btrfs subvolume create",
                                                       s.subvolume, rc))
                       /\ IF rc # 0
                          THEN /\ Goto("finally")
                               /\ pending' = "CalledProcessError"
                               /\ faults' = faults + 1
                               /\ UNCHANGED << rest, subvol_on_disk >>
                          ELSE /\ Goto("create")
                               /\ rest' = Tail(rest)
                               /\ subvol_on_disk' = subvol_on_disk \cup {s.subvolume}
                               /\ UNCHANGED << pending, faults >>
    /\ UNCHANGED << globalstorage, inputs, history, mounted, dirs, run_locals,
                    mount_options_list, active_mounts, partition, fstype, device,
                    mount_options_string, btrfs_subvolumes, zfs_pool >>

\* finally: the scratch directory is unmounted and taken out of the ledger
ScratchCleanup ==
    /\ pc = "finally"
    /\ IF ismount(setup_dir)
       THEN \E rc \in Status :
              /\ cmds' = Append(cmds, UmountCmd(setup_dir, "finally", rc))
              /\ IF rc # 0
                 THEN \* check_call raises
                      /\ Raise("CalledProcessError")
                      /\ faults' = faults + 1
                      /\ UNCHANGED << mounted, active_mounts >>
                 ELSE /\ mounted' = UmountAt(mounted, setup_dir)
                      /\ active_mounts' = Remove(active_mounts, setup_dir)
                      /\ UNCHANGED faults
                      /\ IF pending # "" THEN Raise(pending) ELSE Goto("root_mount")
       ELSE /\ active_mounts' = Remove(active_mounts, setup_dir)
            /\ UNCHANGED << mounted, cmds, faults >>
            /\ IF pending # "" THEN Raise(pending) ELSE Goto("root_mount")
    /\ UNCHANGED << globalstorage, inputs, history, subvol_on_disk, dirs, run_locals,
                    mount_options_list, mp_locals >>

\* the first entry of the list, whatever its mount point
FirstEntry(subvolumes) ==
    IF subvolumes = <<>> THEN <<>> ELSE << subvolumes[1] >>

\* next((s for s in btrfs_subvolumes if s["mountPoint"] == "/"), None), as a
\* list with at most one element
RootSub(subvolumes) ==
    LET roots == SelectSeq(subvolumes, LAMBDA s : s.mountPoint = Root)
    IN  IF roots = <<>> THEN <<>> ELSE << roots[1] >>

\* f"subvol={subvolume},{options}"
SubvolOptions(subvolume, options) == << "subvol=" \o subvolume >> \o options

\* the root subvolume is mounted on the install root
RootSubvolumeMount ==
    /\ pc = "root_mount"
    /\ LET root_sub == RootSub(btrfs_subvolumes)
       IN  IF root_sub = <<>>
           THEN /\ CallErr("Btrfs root subvolume (/) not found!", active_mounts)
                /\ UNCHANGED << mounted, cmds, faults, rest >>
           ELSE IF root_sub[1].subvolume = ""
           THEN /\ CallErr("root subvolume not defined", active_mounts)
                /\ UNCHANGED << mounted, cmds, faults, rest >>
           ELSE \E rc \in Status :
                  /\ cmds' = Append(cmds,
                         MountCmd(device, root_mount_point, fstype,
                                  SubvolOptions(root_sub[1].subvolume,
                                                mount_options_string), rc))
                  /\ IF rc # 0
                     THEN /\ CallErr("Failed to mount root subvolume", active_mounts)
                          /\ faults' = faults + 1
                          /\ UNCHANGED << mounted, rest >>
                     ELSE /\ Goto("subvolumes")
                          /\ mounted' = MountAt(mounted, root_mount_point)
                          /\ rest' = btrfs_subvolumes
                          /\ UNCHANGED faults
    /\ UNCHANGED << globalstorage, inputs, history, subvol_on_disk, dirs, run_locals,
                    mount_options_list, active_mounts, partition, fstype, device,
                    mount_options_string, btrfs_subvolumes, pending, zfs_pool >>

\* one iteration of the loop that mounts the remaining subvolumes
SubvolumeMount ==
    /\ pc = "subvolumes"
    /\ IF rest = <<>>
       THEN /\ Return
            /\ UNCHANGED << globalstorage, world, mount_options_list, rest >>
       ELSE LET s == Head(rest)
                sub_path == root_mount_point \o s.mountPoint
            IN  IF s.mountPoint = Root
                THEN /\ Goto("subvolumes")
                     /\ globalstorage' = ("btrfsRootSubvolume" :> s.subvolume) @@ globalstorage
                     /\ rest' = Tail(rest)
                     /\ UNCHANGED << world, mount_options_list >>
                ELSE IF s.subvolume = ""
                THEN /\ CallErr("subvolume not defined", active_mounts)
                     /\ UNCHANGED << globalstorage, world, mount_options_list, rest >>
                ELSE \E made \in {r = 0 : r \in Status} :
                       IF ~ made
                       THEN \* os.makedirs raises
                            /\ Raise("OSError")
                            /\ faults' = faults + 1
                            /\ UNCHANGED << globalstorage, subvol_on_disk, mounted, dirs,
                                            cmds, mount_options_list, rest >>
                       ELSE \E rc \in Status :
                              /\ cmds' = Append(cmds,
                                     MountCmd(device, sub_path, fstype,
                                              SubvolOptions(s.subvolume,
                                                            mount_options_string), rc))
                              /\ dirs' = dirs \cup {sub_path}
                              /\ IF rc # 0
                                 THEN /\ CallErr("Failed to mount subvolume", active_mounts)
                                      /\ faults' = faults + 1
                                      /\ UNCHANGED << mounted, mount_options_list, rest >>
                                 ELSE /\ Goto("subvolumes")
                                      /\ mounted' = MountAt(mounted, sub_path)
                                      /\ mount_options_list' =
                                           Append(mount_options_list,
                                                  [mountpoint |-> s.mountPoint,
                                                   option_string |-> mount_options_string])
                                      /\ rest' = Tail(rest)
                                      /\ UNCHANGED faults
                              /\ UNCHANGED << globalstorage, subvol_on_disk >>
    /\ UNCHANGED << inputs, history, run_locals, active_mounts, partition, fstype, device,
                    mount_options_string, btrfs_subvolumes, pending, zfs_pool >>

\* ------------------------------------------------------------------------
\* mount_zfs()
\* ------------------------------------------------------------------------

\* encrypt of mount_zfs(): some entry of zfsInfo marks the mount point encrypted
Encrypted(gs, p) ==
    LET zfs_info_list == Get(gs, "zfsInfo", <<>>)
    IN  \E i \in 1..Len(zfs_info_list) :
          /\ zfs_info_list[i].mountpoint = p.mountPoint
          /\ zfs_info_list[i].encrypted = TRUE

CanMount(dataset) == dataset.canMount = "noauto" \/ dataset.canMount = "True"

\* mount_zfs() after the import and the key: to the datasets of the root, or
\* to the one dataset of another mount point
AfterUnlock ==
    IF partition.mountPoint = Root
    THEN LET zfs == Get(globalstorage, "zfsDatasets", <<>>)
         IN  IF zfs = <<>>
             THEN /\ Raise("Internal error mounting zfs datasets")
                  /\ UNCHANGED rest
             ELSE /\ Goto("zfs_datasets")
                  /\ rest' = SortByKey(zfs, "mountpoint")
    ELSE /\ Goto("zfs_mount")
         /\ UNCHANGED rest

\* zpool import -N -R root_mount_point pool_name
ZpoolImport ==
    /\ pc = "zpool_import"
    /\ \E rc \in Status :
         /\ cmds' = Append(cmds, ToolCmd("zpool import", zfs_pool.poolName, rc))
         /\ IF rc # 0
            THEN /\ Raise("Failed to import zpool")
                 /\ faults' = faults + 1
                 /\ UNCHANGED rest
            ELSE /\ UNCHANGED faults
                 /\ IF Encrypted(globalstorage, partition)
                    THEN /\ Goto("zfs_load_key")
                         /\ UNCHANGED rest
                    ELSE AfterUnlock
    /\ UNCHANGED << globalstorage, inputs, history, subvol_on_disk, mounted, dirs, run_locals,
                    mount_options_list, active_mounts, partition, fstype, device,
                    mount_options_string, btrfs_subvolumes, pending, zfs_pool >>

\* zfs load-key pool_name
ZfsLoadKey ==
    /\ pc = "zfs_load_key"
    /\ \E rc \in Status :
         /\ cmds' = Append(cmds, ToolCmd("zfs load-key", zfs_pool.poolName, rc))
         /\ IF rc # 0
            THEN /\ Raise("Failed to unlock zpool")
                 /\ faults' = faults + 1
                 /\ UNCHANGED rest
            ELSE /\ UNCHANGED faults
                 /\ AfterUnlock
    /\ UNCHANGED << globalstorage, inputs, history, subvol_on_disk, mounted, dirs, run_locals,
                    mount_options_list, active_mounts, partition, fstype, device,
                    mount_options_string, btrfs_subvolumes, pending, zfs_pool >>

\* one iteration of the loop over the datasets, for the root mount point
ZfsMountDataset ==
    /\ pc = "zfs_datasets"
    /\ IF rest = <<>>
       THEN /\ Return
            /\ UNCHANGED << rest, mounted, cmds, faults >>
       ELSE LET dataset == Head(rest)
            IN  IF ~ CanMount(dataset)
                THEN /\ Goto("zfs_datasets")
                     /\ rest' = Tail(rest)
                     /\ UNCHANGED << mounted, cmds, faults >>
                ELSE \E rc \in Status :
                       /\ cmds' = Append(cmds,
                              ZfsMountCmd(dataset.zpool, dataset.dsName,
                                          root_mount_point \o dataset.mountpoint, rc))
                       /\ IF rc # 0
                          THEN /\ Raise("Failed to set zfs mountpoint")
                               /\ faults' = faults + 1
                               /\ UNCHANGED << mounted, rest >>
                          ELSE /\ Goto("zfs_datasets")
                               /\ mounted' = MountAt(mounted,
                                                     root_mount_point \o dataset.mountpoint)
                               /\ rest' = Tail(rest)
                               /\ UNCHANGED faults
    /\ UNCHANGED << globalstorage, inputs, history, subvol_on_disk, dirs, run_locals,
                    mount_options_list, active_mounts, partition, fstype, device,
                    mount_options_string, btrfs_subvolumes, pending, zfs_pool >>

\* zfs mount pool_name/ds_name, for a mount point other than the root
ZfsMountOne ==
    /\ pc = "zfs_mount"
    /\ \E rc \in Status :
         /\ cmds' = Append(cmds,
                ZfsMountCmd(zfs_pool.poolName, zfs_pool.dsName, MountPoint, rc))
         /\ IF rc # 0
            THEN /\ Raise("Failed to set zfs mountpoint")
                 /\ faults' = faults + 1
                 /\ UNCHANGED mounted
            ELSE /\ Return
                 /\ mounted' = MountAt(mounted, MountPoint)
                 /\ UNCHANGED faults
    /\ UNCHANGED << globalstorage, inputs, history, subvol_on_disk, dirs, run_locals,
                    mount_options_list, active_mounts, mp_locals >>

\* ------------------------------------------------------------------------
\* Specifications
\* ------------------------------------------------------------------------

Next ==
    \/ RunStart
    \/ NextPartition
    \/ StartExtra
    \/ Publish
    \/ RunExcept
    \/ ErrStep
    \/ ErrRaise
    \/ MountPartition
    \/ DirectMount
    \/ ScratchMount
    \/ CreateSubvolume
    \/ ScratchCleanup
    \/ RootSubvolumeMount
    \/ SubvolumeMount
    \/ ZpoolImport
    \/ ZfsLoadKey
    \/ ZfsMountDataset
    \/ ZfsMountOne

\* a run of run()
Spec == Init /\ [][Next]_vars

\* the state in which run() calls mount_partition() after k mounts on the
\* install root: what run() has set up, and the two ledgers of those mounts
PriorLedger(k) == [i \in 1..k |-> root_mount_point \o Root]

PriorOptions(k) == [i \in 1..k |-> [mountpoint |-> Root, option_string |-> Defaults]]

PriorMounts(k) == [i \in 1..k |-> root_mount_point]

\* mount_partition() is called on one partition or extra mount
InitMountPartition ==
    /\ \E parts \in PartitionLists \ { <<>> } :
         \E plat \in Platforms, b \in BtrfsSetupsFor(parts), z \in ZfsSetupsFor(parts) :
           /\ globalstorage = ("partitions" :> parts) @@ plat.gs @@ b.gs @@ z
           /\ configuration = ("extraMounts" :> ExtraMounts) @@ plat.conf @@ b.conf
           /\ sysfs = plat.sysfs
           /\ subvol_on_disk = b.on_disk
           /\ partition \in Elems(parts) \cup Elems(ExtraMounts)
           /\ efi_location =
                  IF Get(plat.gs, "firmwareType", "") = "efi"
                  THEN Get(plat.gs, "efiSystemPartition", <<>>) ELSE <<>>
    /\ \E k \in 0..1 :
         /\ active_mounts = PriorLedger(k)
         /\ mount_options_list = PriorOptions(k)
         /\ mounted = PriorMounts(k)
    /\ entry = "mount_partition"
    /\ pc = "mount_partition"
    /\ dirs = {root_mount_point}
    /\ cmds = <<>>
    /\ faults = 0
    /\ result = ""
    /\ failure = ""
    /\ extra_mounts = ExtraMounts
    /\ phase = "physical"
    /\ todo = <<>>
    /\ fstype = ""
    /\ device = <<>>
    /\ mount_options_string = <<>>
    /\ btrfs_subvolumes = <<>>
    /\ rest = <<>>
    /\ pending = ""
    /\ zfs_pool = NoPool
    /\ err_todo = <<>>
    /\ err_caller = ""
    /\ processed = <<>>

NextMountPartition ==
    \/ MountPartition
    \/ DirectMount
    \/ ScratchMount
    \/ CreateSubvolume
    \/ ScratchCleanup
    \/ RootSubvolumeMount
    \/ SubvolumeMount
    \/ ZpoolImport
    \/ ZfsLoadKey
    \/ ZfsMountDataset
    \/ ZfsMountOne
    \/ ErrStep
    \/ ErrRaise

\* one call of mount_partition()
SpecMountPartition == InitMountPartition /\ [][NextMountPartition]_vars

\* every variable that a call of one function alone leaves as it is
Idle ==
    /\ mounted = <<>>
    /\ active_mounts = <<>>
    /\ partition = NoPartition
    /\ InitLocals

HomeUser == Home \o << "/", "u", "s", "e", "r" >>

Homestead == Home \o << "s", "t", "e", "a", "d" >>

\* The partitions the planner is called with: with and without a mount
\* point, at and under the mount points of the layouts, and at /swap.
PlannerPartitions ==
    << [device |-> DevNvme, fs |-> "btrfs", mountPoint |-> Root],
       [device |-> DevSda3, fs |-> "ext4", mountPoint |-> Home],
       [device |-> DevSdb1, fs |-> "ext4", mountPoint |-> Var],
       [device |-> DevSdb2, fs |-> "ext4", mountPoint |-> Swap],
       [device |-> DevSda1, fs |-> "linuxswap"],
       [device |-> DevSda2, fs |-> "linuxswap", mountPoint |-> <<>>] >>

\* job configurations: no layout, an empty layout, a layout of its own with
\* a swap subvolume of its own
PlannerLayouts ==
    { EmptyDict,
      ("btrfsSubvolumes" :> <<>>),
      ("btrfsSubvolumes" :>
          << [mountPoint |-> HomeUser, subvolume |-> "/@user"],
             [mountPoint |-> Homestead, subvolume |-> "/@homestead"],
             [mountPoint |-> Root, subvolume |-> "/@"],
             [mountPoint |-> Home, subvolume |-> "/@home"],
             [mountPoint |-> Var, subvolume |-> ""],
             [mountPoint |-> Root, subvolume |-> "/@other"] >>)
        @@ ("btrfsSwapSubvol" :> "/@swapfile") }

\* globalstorage["partitionChoices"]: not set, swap in a file, no swap
SwapChoices ==
    { EmptyDict,
      ("partitionChoices" :> [swap |-> "file"]),
      ("partitionChoices" :> [swap |-> "none"]) }

\* get_btrfs_subvolumes(partitions) is called
InitPlanner ==
    /\ \E parts \in ListsFrom(PlannerPartitions, MaxParts), choice \in SwapChoices :
         globalstorage = ("partitions" :> parts) @@ choice
    /\ configuration \in PlannerLayouts
    /\ sysfs = EmptyDict
    /\ subvol_on_disk = {}
    /\ entry = "get_btrfs_subvolumes"
    /\ pc = "get_btrfs_subvolumes"
    /\ Idle

\* the call returns its list
PlannerCall ==
    /\ pc = "get_btrfs_subvolumes"
    /\ btrfs_subvolumes' =
           get_btrfs_subvolumes(globalstorage.partitions, configuration, globalstorage)
    /\ globalstorage' = PlannerInsert(configuration, globalstorage)
    /\ pc' = "returned"
    /\ UNCHANGED << inputs, history, world, run_locals, result, failure, err_todo,
                    err_caller, mount_options_list, active_mounts, partition, fstype,
                    device, mount_options_string, rest, pending, zfs_pool >>

\* one call of get_btrfs_subvolumes()
SpecPlanner == InitPlanner /\ [][PlannerCall]_vars

\* The partitions and extra mounts the resolver is called with: on an nvme,
\* a sata and an mmc disk, at the EFI system partition, without a device, and
\* with option lists of their own of no, one and two options.
ResolverPartitions ==
    { [device |-> DevNvme, mountPoint |-> Root],
      [device |-> DevSda3, mountPoint |-> Home],
      [device |-> DevMmc, mountPoint |-> BootEfi],
      [mountPoint |-> Proc],
      [device |-> Dev, mountPoint |-> Dev, options |-> << "bind" >>],
      [device |-> DevNvme, mountPoint |-> Root, options |-> <<>>],
      [device |-> DevSda1, mountPoint |-> BootEfi, options |-> << "ro", "noexec" >>] }

\* A rule table without a default rule, with two rules of one kind, with a
\* rule without options and with a rule whose options are empty.
SparseOptionsTable ==
    << [filesystem |-> "btrfs", options |-> <<>>, hddOptions |-> <<>>,
        ssdOptions |-> << "discard=async" >>],
       [filesystem |-> "btrfs", options |-> << "compress=zstd" >>],
       [filesystem |-> "ext4", ssdOptions |-> << "discard" >>, nvmeOptions |-> << "noatime" >>],
       [filesystem |-> "efi", options |-> << "umask=0077" >>, hddOptions |-> << "sync" >>] >>

\* job configurations: no rule table, an empty one, the one of mount.conf, a
\* sparse one
ResolverTables ==
    { EmptyDict,
      ("mountOptions" :> <<>>),
      ("mountOptions" :> MountOptionsTable),
      ("mountOptions" :> SparseOptionsTable) }

ResolverFilesystems == { "btrfs", "ext4", "vfat", "xfs" }

\* /sys: no rotational file, every disk non-rotational, every disk
\* rotational, a file without its newline
ResolverSysfs ==
    { EmptyDict,
      [d \in DiskNames |-> "0\n"],
      [d \in DiskNames |-> "1\n"],
      [d \in DiskNames |-> "0"] }

\* the position in the table of the rule that get_mount_options() uses, 0 if
\* it uses none
RuleIndex(table, fs) ==
    LET hits == { i \in 1..Len(table) : table[i].filesystem = fs }
    IN  IF hits = {} THEN 0 ELSE CHOOSE i \in hits : \A j \in hits : i <= j

\* option_items = options.get("options", []).copy() is a list of its own:
\* extend() on it does not reach the list of the rule
SharesList(rule) == FALSE

\* the rule table after get_mount_options() has extended option_items
TableAfter(filesystem, mount_options, p, efi, sys) ==
    IF "options" \in DOMAIN p \/ mount_options = <<>> THEN mount_options
    ELSE
      LET table == mount_options[1]
          effective_filesystem ==
              IF efi # <<>> /\ p.mountPoint = efi THEN "efi" ELSE filesystem
          k == IF RuleIndex(table, effective_filesystem) # 0
               THEN RuleIndex(table, effective_filesystem)
               ELSE RuleIndex(table, "default")
      IN  IF k = 0 \/ ~ SharesList(table[k]) THEN mount_options
          ELSE LET rule == table[k]
                   added == IF is_ssd_disk(p, sys)
                            THEN (IF StartsWith(Basename(p.device), Nvme)
                                  THEN Get(rule, "nvmeOptions", <<>>)
                                  ELSE Get(rule, "ssdOptions", <<>>))
                            ELSE Get(rule, "hddOptions", <<>>)
               IN  << [table EXCEPT ![k] =
                          ("options" :> (Get(rule, "options", <<>>) \o added)) @@ rule] >>

\* the argument mount_options: <<>> for None, else << the rule table >>
RuleTableArg ==
    IF "mountOptions" \in DOMAIN configuration
    THEN << configuration["mountOptions"] >> ELSE <<>>

\* get_mount_options(filesystem, mount_options, partition, efi_location) is
\* called
InitResolver ==
    /\ configuration \in ResolverTables
    /\ sysfs \in ResolverSysfs
    /\ globalstorage = EmptyDict
    /\ subvol_on_disk = {}
    /\ entry = "get_mount_options"
    /\ pc = "get_mount_options"
    /\ mounted = <<>>
    /\ active_mounts = <<>>
    /\ partition \in ResolverPartitions
    /\ dirs = {}
    /\ cmds = <<>>
    /\ faults = 0
    /\ result = ""
    /\ failure = ""
    /\ efi_location \in { <<>>, BootEfi }
    /\ extra_mounts = <<>>
    /\ phase = "physical"
    /\ todo = <<>>
    /\ mount_options_list = <<>>
    /\ fstype \in ResolverFilesystems
    /\ device = <<>>
    /\ mount_options_string = <<>>
    /\ btrfs_subvolumes = <<>>
    /\ rest = <<>>
    /\ pending = ""
    /\ zfs_pool = NoPool
    /\ err_todo = <<>>
    /\ err_caller = ""
    /\ processed = <<>>

\* the call returns its option string; rest keeps the rule table as the call
\* leaves it
ResolverCall ==
    /\ pc = "get_mount_options"
    /\ mount_options_string' =
           get_mount_options(fstype, RuleTableArg, partition, efi_location, sysfs)
    /\ rest' = TableAfter(fstype, RuleTableArg, partition, efi_location, sysfs)
    /\ pc' = "returned"
    /\ UNCHANGED << globalstorage, inputs, history, world, run_locals, result, failure,
                    err_todo, err_caller, mount_options_list, active_mounts, partition,
                    fstype, device, btrfs_subvolumes, pending, zfs_pool >>

\* one call of get_mount_options()
SpecResolver == InitResolver /\ [][ResolverCall]_vars

\* ------------------------------------------------------------------------
\* run() on mount points that lie inside one another
\* ------------------------------------------------------------------------

Tmp == << "/", "t", "m", "p" >>
TmpWork == Tmp \o << "/", "w", "o", "r", "k" >>
VarLog == Var \o << "/", "l", "o", "g" >>

\* partitions of globalstorage["partitions"], one of them below /tmp and one
\* below /var
NestedPool ==
    << [device |-> DevSda3, fs |-> "ext4", mountPoint |-> TmpWork],
       [device |-> DevSda2, fs |-> "ext4", mountPoint |-> Root],
       [device |-> DevNvme, fs |-> "btrfs", mountPoint |-> Root],
       [device |-> DevSdb1, fs |-> "zfs", mountPoint |-> Root],
       [device |-> DevSdb2, fs |-> "ext4", mountPoint |-> VarLog],
       [device |-> DevSdb2, fs |-> "zfs", mountPoint |-> Data] >>

\* no two partitions of the list have the same mount point
DistinctMountPoints(parts) ==
    \A a \in 1..Len(parts), b \in 1..Len(parts) :
        a # b => parts[a].mountPoint # parts[b].mountPoint

NestedPartitionLists ==
    { parts \in ListsFrom(NestedPool, MaxParts) :
        parts # <<>> /\ DistinctMountPoints(parts) }

\* extraMounts of mount.conf with a tmpfs on /tmp
NestedExtraMounts ==
    << [device |-> << "p", "r", "o", "c" >>, fs |-> "proc", mountPoint |-> Proc],
       [device |-> << "t", "m", "p", "f", "s" >>, fs |-> "tmpfs", mountPoint |-> Tmp] >>

\* btrfsSubvolumes absent, with /var before /var/log, and with /var/log
\* before /var
NestedBtrfsSetups ==
    { [gs |-> EmptyDict, conf |-> EmptyDict, on_disk |-> {}],
      [gs |-> EmptyDict,
       conf |-> ("btrfsSubvolumes" :>
                   << [mountPoint |-> Root, subvolume |-> "/@"],
                      [mountPoint |-> Var, subvolume |-> "/@var"],
                      [mountPoint |-> VarLog, subvolume |-> "/@log"] >>),
       on_disk |-> {"/@"}],
      [gs |-> EmptyDict,
       conf |-> ("btrfsSubvolumes" :>
                   << [mountPoint |-> Root, subvolume |-> "/@"],
                      [mountPoint |-> VarLog, subvolume |-> "/@log"],
                      [mountPoint |-> Var, subvolume |-> "/@var"] >>),
       on_disk |-> {"/@"}] }

NestedBtrfsSetupsFor(parts) ==
    IF \E i \in 1..Len(parts) : IsBtrfsRoot(parts[i])
    THEN NestedBtrfsSetups
    ELSE { [gs |-> EmptyDict, conf |-> EmptyDict, on_disk |-> {}] }

\* run() is called on a fresh target
InitNested ==
    /\ \E parts \in NestedPartitionLists, extras \in { <<>>, NestedExtraMounts } :
         \E b \in NestedBtrfsSetupsFor(parts), z \in ZfsSetupsFor(parts) :
           /\ globalstorage = ("partitions" :> parts) @@ ("firmwareType" :> "bios") @@ b.gs @@ z
           /\ configuration =
                  ("extraMounts" :> extras) @@ ("mountOptions" :> MountOptionsTable) @@ b.conf
           /\ sysfs = [d \in DiskNames |-> "0\n"]
           /\ subvol_on_disk = b.on_disk
    /\ mounted = <<>>
    /\ entry = "run"
    /\ pc = "run"
    /\ active_mounts = <<>>
    /\ partition = NoPartition
    /\ InitLocals

SpecNested == InitNested /\ [][Next]_vars

\* ------------------------------------------------------------------------
\* Properties
\* ------------------------------------------------------------------------

\* [F(list[1]), ..., F(list[n])]
Map(list, F(_)) == [i \in 1..Len(list) |-> F(list[i])]

TargetOf(c) == Norm(c.target)

IsExecutorMount(c) == c.cmd = "mount" /\ c.rc = 0

IsAnyMount(c) == c.cmd \in {"mount", "zfs mount"} /\ c.rc = 0

IsRollbackUmount(c) ==
    /\ c.cmd \in {"umount", "umount -l"}
    /\ c.by \in {"mount_partition", "run"}

IsRunUmount(c) == c.cmd \in {"umount", "umount -l"} /\ c.by = "run"

\* the directories on which a mount of this run succeeded, in mount order
\* (mount executor, or mount executor and zfs)
ExecutorMounts == Map(SelectSeq(cmds, IsExecutorMount), TargetOf)

AllMounts == Map(SelectSeq(cmds, IsAnyMount), TargetOf)

\* the directories that rollback has sent an unmount to, in that order
RollbackUmounts == Map(SelectSeq(cmds, IsRollbackUmount), TargetOf)

MountFailures ==
    { "Cannot mount", "Cannot mount btrfs for subvolume creation",
      "Failed to mount root subvolume", "Failed to mount subvolume" }

\* C1: when run() has failed on a mount step, the directories that rollback
\* sent an unmount to are exactly the directories on which a mount of this
\* run had succeeded: every directory mounted by the mount executor (the
\* scratch directory, unmounted by its own cleanup, aside) was sent one, and
\* no directory was sent one that no mount of this run had succeeded on.
C1_RollbackCompleteness ==
    (result = "Exception" /\ failure \in MountFailures)
        => /\ Elems(ExecutorMounts) \ {setup_dir} \subseteq Elems(RollbackUmounts)
           /\ Elems(RollbackUmounts) \subseteq Elems(AllMounts)

\* the position of the first entry of the ledger for the directory t
LedgerIndex(t) ==
    CHOOSE i \in 1..Len(active_mounts) :
        /\ Norm(active_mounts[i]) = t
        /\ \A j \in 1..(i - 1) : Norm(active_mounts[j]) # t

\* the unmounts of the rollback pass made by caller, in order
PassUmounts(caller) ==
    Map(SelectSeq(cmds, LAMBDA c : c.cmd \in {"umount", "umount -l"} /\ c.by = caller),
        TargetOf)

RollbackCallers == {"mount_partition", "run"}

\* C2 as claimed: within a rollback pass, a directory appended to the ledger
\* later is never unmounted after one appended earlier.
C2_ReverseChronological ==
    \A caller \in RollbackCallers :
        LET u == PassUmounts(caller)
        IN  \A i, j \in 1..Len(u) :
                i < j => LedgerIndex(u[i]) >= LedgerIndex(u[j])

\* C2 as amended: within a rollback pass the unmounts go in descending
\* lexical order of the paths.
C2_DescendingLexical ==
    \A caller \in RollbackCallers :
        LET u == PassUmounts(caller)
        IN  \A i, j \in 1..Len(u) : i < j => StrLeq(u[j], u[i])

\* a pass has unmounted two directories in an order that is not the reverse
\* of the order of the ledger
C2_Witness ==
    \E caller \in RollbackCallers :
        LET u == PassUmounts(caller)
        IN  \E i, j \in 1..Len(u) :
                i < j /\ LedgerIndex(u[i]) < LedgerIndex(u[j])

ModuleKeys ==
    { "rootMountPoint", "mountOptionsList", "extraMounts", "btrfsSubvolumes",
      "btrfsRootSubvolume", "btrfsSwapSubvol" }

FinalKeys == { "rootMountPoint", "mountOptionsList", "extraMounts" }

\* C3: when run() has ended, it has written either none of its keys or all
\* of the keys of its end, and none when it failed.
C3_AllOrNothing ==
    pc = "done" =>
        LET written == DOMAIN globalstorage \cap ModuleKeys
        IN  /\ written = {} \/ FinalKeys \subseteq written
            /\ result # "ok" => written = {}

RECURSIVE IsSubsequence(_, _)
\* a is b with some elements left out
IsSubsequence(a, b) ==
    IF a = <<>> THEN TRUE
    ELSE IF b = <<>> THEN FALSE
    ELSE IF Head(a) = Head(b) THEN IsSubsequence(Tail(a), Tail(b))
    ELSE IsSubsequence(a, Tail(b))

\* the mounts of the mount executor that are in place before any rollback
StandingMounts ==
    SelectSeq(ExecutorMounts, LAMBDA t : t # setup_dir \/ ismount(setup_dir))

\* C4: before rollback, every mount made by the mount executor that is in
\* place has its entry in the ledger, and the ledger has these entries in
\* the order of the mounts.
C4_LedgerCompleteness ==
    failure = "" => IsSubsequence(StandingMounts, Map(active_mounts, Norm))

\* the mount points of the partitions that zfs has mounted
ZfsBacked ==
    { t \in Elems(Map(SelectSeq(cmds, LAMBDA c : c.cmd = "zfs mount" /\ c.rc = 0),
                      TargetOf)) :
        \E p \in Elems(Get(globalstorage, "partitions", <<>>)) :
            IsZfs(p) /\ Norm(root_mount_point \o p.mountPoint) = t }

\* C5: between two calls of mount_partition() and at the end of run(), the
\* mount points of mount_options_list are exactly the mount points that were
\* mounted with success.
C5_OptionsLedger ==
    pc \in {"loop", "done"} =>
        { Norm(root_mount_point \o e.mountpoint) : e \in Elems(mount_options_list) }
            = (Elems(ExecutorMounts) \ {setup_dir}) \cup ZfsBacked

\* the commands that go forward: mounts, subvolume creations, pool imports,
\* key loads and dataset mounts
ForwardCmds ==
    SelectSeq(cmds, LAMBDA c : c.cmd \in { "mount", "btrfs subvolume create",
                                           "zpool import", "zfs load-key", "zfs mount" })

\* the rollback of run() has visited the ledger: every entry that is still
\* mounted was sent an unmount by it
RollbackDone ==
    /\ err_todo = <<>>
    /\ \A i \in 1..Len(active_mounts) :
           ismount(active_mounts[i]) =>
               Norm(active_mounts[i]) \in Elems(PassUmounts("run"))

\* C6: once a step has failed, no mount, subvolume creation, pool import, key
\* load or dataset mount is issued and no further entry is taken from the
\* lists; and the failure reaches the caller of run() only after the rollback
\* of run() has visited the whole ledger.
C6_AbortOnFirstFailure ==
    [][ /\ (failure # "" \/ pending # "") =>
               /\ ForwardCmds' = ForwardCmds
               /\ todo' = todo
               /\ processed' = processed
        /\ (result' = "Exception" /\ result # "Exception") =>
               /\ failure # ""
               /\ err_caller = "run"
               /\ RollbackDone'
      ]_vars

\* run() has failed with entries left in its list, after a rollback that has
\* unmounted something
C6_Witness ==
    /\ result = "Exception"
    /\ todo # <<>>
    /\ PassUmounts("run") # <<>>

\* the entries of the partition list / of the extra list that have a mount
\* point
ListOf(ph) ==
    SelectSeq(IF ph = "physical" THEN Get(globalstorage, "partitions", <<>>)
              ELSE extra_mounts, HasMountPoint)

EfiCapable == Get(globalstorage, "firmwareType", "") = "efi"

\* the rejection as the claim states it
RejectedByRule(p) ==
    LET fs == Lower(Get(p, "fs", ""))
    IN  /\ fs \in {"fat16", "fat32", "exfat", "ntfs", "ext2"}
        /\ \/ p.mountPoint \notin {Boot, BootEfi}
           \/ fs \in {"ntfs", "ext2"}
           \/ (fs = "exfat" /\ EfiCapable)

IsMountCall(c) == c.cmd = "mount"

\* C9: the mount executor is never given fat16, fat32, ntfs or ext2, is given
\* vfat or exfat only for /boot or /boot/efi, and exfat only when the system is
\* not EFI-capable; a partition that the rule rejects makes the run fail, and
\* the unsupported-partition failure is raised for no other partition.
C9_UnsupportedRejection ==
    /\ \A c \in Elems(SelectSeq(cmds, IsMountCall)) :
           /\ c.fstype \notin {"fat16", "fat32", "ntfs", "ext2"}
           /\ c.fstype \in {"vfat", "exfat"} =>
                  TargetOf(c) \in { root_mount_point \o Boot, root_mount_point \o BootEfi }
           /\ c.fstype = "exfat" => ~ EfiCapable
    /\ (partition # NoPartition /\ pc \notin {"run", "mount_partition"}) =>
           /\ (partition.mountPoint # <<>> /\ RejectedByRule(partition)) => failure # ""
           /\ failure = "Unsupported partition" => RejectedByRule(partition)

PlannerInput ==
    IF Get(configuration, "btrfsSubvolumes", <<>>) = <<>>
    THEN << [mountPoint |-> Root, subvolume |-> "/@"],
            [mountPoint |-> Home, subvolume |-> "/@home"] >>
    ELSE configuration.btrfsSubvolumes

\* the mount points of the dedicated partitions other than the root
DedicatedMounts ==
    { p.mountPoint : p \in { q \in Elems(globalstorage.partitions) :
                               HasMountPoint(q) /\ q.mountPoint # Root } }

\* the path is the directory m or lies below it
AtOrUnder(path, m) ==
    \/ path = m
    \/ /\ Len(path) > Len(m)
       /\ SubSeq(path, 1, Len(m)) = m
       /\ path[Len(m) + 1] = "/"

\* C11: the list get_btrfs_subvolumes() returns has no subvolume whose mount
\* point is, or lies below, the mount point of a dedicated partition other
\* than the root, and it has every entry of the layout whose mount point is
\* '/'.
C11_PlannerFilter ==
    (entry = "get_btrfs_subvolumes" /\ pc = "returned") =>
        /\ \A s \in Elems(btrfs_subvolumes) :
               s.mountPoint # Root =>
                   \A m \in DedicatedMounts : ~ AtOrUnder(s.mountPoint, m)
        /\ \A s \in Elems(PlannerInput) :
               s.mountPoint = Root => s \in Elems(btrfs_subvolumes)

\* the option string that the precedence rules give for the call
ByPrecedence ==
    LET defaults == << "defaults" >>
    IN  IF "options" \in DOMAIN partition
        THEN (IF partition.options = <<>> THEN << "" >> ELSE partition.options)
        ELSE IF "mountOptions" \notin DOMAIN configuration THEN defaults
        ELSE
          LET table == configuration.mountOptions
              kind == IF efi_location # <<>> /\ partition.mountPoint = efi_location
                      THEN "efi" ELSE fstype
              OfKind(k) == { i \in 1..Len(table) : table[i].filesystem = k }
              First(S) == CHOOSE i \in S : \A j \in S : i <= j
              pick == IF OfKind(kind) # {} THEN First(OfKind(kind))
                      ELSE IF OfKind("default") # {} THEN First(OfKind("default"))
                      ELSE 0
          IN  IF pick = 0 THEN defaults
              ELSE
                LET rule == table[pick]
                    Of(key) == IF key \in DOMAIN rule THEN rule[key] ELSE <<>>
                    disk == IF "device" \in DOMAIN partition
                            THEN << disk_name_for_partition(partition) >> ELSE <<>>
                    non_rotational ==
                        /\ disk # <<>>
                        /\ disk[1] \in DOMAIN sysfs
                        /\ sysfs[disk[1]] = "0\n"
                    nvme == StartsWith(Basename(partition.device), Nvme)
                    all == Of("options") \o
                           (IF non_rotational /\ nvme THEN Of("nvmeOptions")
                            ELSE IF non_rotational THEN Of("ssdOptions")
                            ELSE Of("hddOptions"))
                IN  IF all = <<>> THEN defaults ELSE all

\* C12: get_mount_options() returns the option string of the precedence
\* rules (the options of the partition itself, else 'defaults' without a rule
\* table, else the rule of the effective kind or the default rule with the
\* additions for the kind of disk, else 'defaults'), and leaves the rule table
\* as it was.
C12_ResolverPrecedence ==
    (entry = "get_mount_options" /\ pc = "returned") =>
        /\ mount_options_string = ByPrecedence
        /\ rest = RuleTableArg

\* the call has returned the options of a rule with the additions for an nvme
\* disk, found by falling back to no other rule
C12_Witness ==
    /\ entry = "get_mount_options"
    /\ pc = "returned"
    /\ "options" \notin DOMAIN partition
    /\ "mountOptions" \in DOMAIN configuration
    /\ mount_options_string = << "defaults", "noatime", "ssd" >>

\* C13: when shared run state has no partition list or an empty one, run()
\* ends with the configuration error at once: without a command (no mount, no
\* swapon), without a directory created, without a path mounted and without a
\* key written to shared run state.
C13_ConfigurationError ==
    (entry = "run" /\ pc # "run" /\ Get(globalstorage, "partitions", <<>>) = <<>>) =>
        /\ pc = "done"
        /\ result = "Configuration Error"
        /\ cmds = <<>>
        /\ dirs = {}
        /\ mounted = <<>>
        /\ DOMAIN globalstorage \cap ModuleKeys = {}
        /\ processed = <<>>

\* run() has ended with the configuration error on a shared run state without
\* a partition list, with extra mounts configured
C13_Witness ==
    /\ result = "Configuration Error"
    /\ "partitions" \notin DOMAIN globalstorage
    /\ Get(configuration, "extraMounts", <<>>) # <<>>

\* a mount on the directory has succeeded in this run
MountedOnce(path) ==
    \E k \in 1..Len(cmds) : IsAnyMount(cmds[k]) /\ TargetOf(cmds[k]) = Norm(path)

Entered ==
    /\ partition # NoPartition
    /\ partition.mountPoint # <<>>
    /\ pc \notin {"run", "mount_partition"}

ScratchMounted ==
    \E k \in 1..Len(cmds) : IsExecutorMount(cmds[k]) /\ cmds[k].target = setup_dir

\* the unmount of the scratch directory by the cleanup has failed
CleanupFailed ==
    \E k \in 1..Len(cmds) :
        /\ cmds[k].cmd = "umount"
        /\ cmds[k].by = "finally"
        /\ cmds[k].rc # 0

\* a mount on the install root with a subvol= option has been issued
RootSubvolumeIssued ==
    \E k \in 1..Len(cmds) :
        /\ cmds[k].cmd = "mount"
        /\ cmds[k].target = root_mount_point
        /\ cmds[k].fstype = "btrfs"

ScratchGone == ~ ismount(setup_dir) /\ setup_dir \notin Elems(active_mounts)

SubvolOf(c) ==
    { s.subvolume : s \in { t \in Elems(btrfs_subvolumes) :
                              /\ c.options # <<>>
                              /\ c.options[1] = "subvol=" \o t.subvolume } }

IsSubvolumeMount(c) == c.cmd = "mount" /\ SubvolOf(c) # {}

\* C16: a scratch mount, a subvolume creation and a mount with a subvol=
\* option are issued only for a btrfs partition at '/', for which nothing
\* else is issued, and any other partition is mounted on its mount point
\* without such an option; the path of every subvol= mount is on the device
\* when the mount is issued (it was there, or was created in the scratch
\* phase); and a subvolume is mounted elsewhere than on the install root only
\* after the root subvolume was mounted there.
C16_CreateThenRemount ==
    /\ [](\A k \in 1..Len(cmds) :
              IsSubvolumeMount(cmds[k]) =>
                  /\ SubvolOf(cmds[k]) \subseteq subvol_on_disk
                  /\ cmds[k].target # root_mount_point =>
                         \E j \in 1..(k - 1) :
                             /\ IsSubvolumeMount(cmds[j])
                             /\ cmds[j].target = root_mount_point
                             /\ cmds[j].rc = 0)
    /\ [][ (/\ Len(cmds') = Len(cmds) + 1
            /\ cmds'[Len(cmds')].cmd \in {"mount", "btrfs subvolume create"}) =>
               LET c == cmds'[Len(cmds')]
               IN  IF Lower(Get(partition, "fs", "")) = "btrfs" /\ partition.mountPoint = Root
                   THEN \/ c.cmd = "btrfs subvolume create" /\ ismount(setup_dir)
                        \/ c.cmd = "mount" /\ c.target = setup_dir
                        \/ IsSubvolumeMount(c)
                   ELSE /\ c.cmd = "mount"
                        /\ c.target = MountPoint
                        /\ ~ IsSubvolumeMount(c)
         ]_vars

\* the /home subvolume, created in the scratch phase of this run, has been
\* mounted below the install root
C16_Witness ==
    /\ \E k \in 1..Len(cmds) :
           /\ cmds[k].cmd = "btrfs subvolume create"
           /\ cmds[k].arg = "/@home"
           /\ cmds[k].rc = 0
    /\ \E k \in 1..Len(cmds) :
           /\ IsSubvolumeMount(cmds[k])
           /\ cmds[k].target = root_mount_point \o Home
           /\ cmds[k].rc = 0

\* the entries of the list for '/': the first is the root subvolume
RootEntries == SelectSeq(btrfs_subvolumes, LAMBDA s : s.mountPoint = Root)

\* the Btrfs root protocol has come to the mount of the root subvolume
AtRootMount ==
    /\ Lower(Get(partition, "fs", "")) = "btrfs"
    /\ partition # NoPartition
    /\ partition.mountPoint = Root
    /\ pc \notin {"run", "mount_partition", "scratch_mount", "create", "finally",
                 "root_mount"}
    /\ ScratchMounted
    /\ ~ CleanupFailed
    /\ ~ \E k \in 1..Len(cmds) : cmds[k].cmd = "btrfs subvolume create" /\ cmds[k].rc # 0

\* the mount executor has been called on the directory
CalledOn(path) ==
    \E k \in 1..Len(cmds) : cmds[k].cmd = "mount" /\ cmds[k].target = path

\* C17: in the Btrfs root protocol, a list without an entry for '/', or whose
\* entry for '/' has an empty subvolume path, makes the run fail without a
\* call of the mount executor on the install root; an entry for another mount
\* point with an empty subvolume path makes the run fail, at its turn, without
\* a call of the mount executor for it; and every mount issued for an entry of
\* the list names a non-empty path in its subvol= option.
C17_RequiredSubvolumePaths ==
    /\ AtRootMount =>
           /\ (RootEntries = <<>> \/ RootEntries[1].subvolume = "") =>
                  /\ failure # ""
                  /\ ~ CalledOn(root_mount_point)
           /\ \A i \in 1..Len(btrfs_subvolumes) :
                  (/\ btrfs_subvolumes[i].mountPoint # Root
                   /\ btrfs_subvolumes[i].subvolume = "") =>
                      /\ ~ CalledOn(root_mount_point \o btrfs_subvolumes[i].mountPoint)
                      /\ pc \in {"loop", "returned", "done"} => failure # ""
    /\ \A k \in 1..Len(cmds) :
           (/\ cmds[k].cmd = "mount"
            /\ cmds[k].fstype = "btrfs"
            /\ cmds[k].target # setup_dir
            /\ \/ cmds[k].target = root_mount_point
               \/ \E s \in Elems(btrfs_subvolumes) :
                      cmds[k].target = root_mount_point \o s.mountPoint) =>
               /\ IsSubvolumeMount(cmds[k])
               /\ "" \notin SubvolOf(cmds[k])

\* the run has failed on an entry with an empty subvolume path after the
\* root subvolume and another subvolume were mounted
C17_Witness ==
    /\ failure = "subvolume not defined"
    /\ CalledOn(root_mount_point)
    /\ CalledOn(root_mount_point \o Home)
    /\ ~ CalledOn(root_mount_point \o Var)
    /\ result = "Exception"

ZfsCmds == { "zpool import", "zfs load-key", "zfs mount" }

\* the position of the last zpool import, 0 if there is none
LastImport ==
    LET at == { k \in 1..Len(cmds) : cmds[k].cmd = "zpool import" }
    IN  IF at = {} THEN 0 ELSE CHOOSE k \in at : \A j \in at : j <= k

\* the commands of the ZFS protocol of the partition: from its import on
ProtocolCmds == IF LastImport = 0 THEN <<>> ELSE SubSeq(cmds, LastImport, Len(cmds))

\* the pool of the metadata for the mount point of the partition (the last
\* such entry)
PoolOf(p) ==
    LET pools == Get(globalstorage, "zfsPoolInfo", <<>>)
        at == { k \in 1..Len(pools) : pools[k].mountpoint = p.mountPoint }
    IN  pools[CHOOSE k \in at : \A j \in at : j <= k]

MarkedEncrypted(p) ==
    \E i \in Elems(Get(globalstorage, "zfsInfo", <<>>)) :
        i.mountpoint = p.mountPoint /\ i.encrypted = TRUE

\* the datasets that are to be mounted for the root: those of the pool whose
\* canMount is 'noauto' or true
RootDatasets(p) ==
    { d \in Elems(Get(globalstorage, "zfsDatasets", <<>>)) :
        /\ d.zpool = PoolOf(p).poolName
        /\ d.canMount \in {"noauto", "True"} }

\* the protocol of the ZFS partition is under way or has returned
InProtocol ==
    /\ partition # NoPartition
    /\ Lower(Get(partition, "fs", "")) = "zfs"
    /\ pc \in {"zfs_load_key", "zfs_datasets", "zfs_mount", "loop"}
    /\ ProtocolCmds # <<>>

\* C18: the protocol of a ZFS partition issues the import of its pool, then
\* the key load if and only if the metadata marks the mount point encrypted,
\* then dataset mounts only; after a command that has failed none follows;
\* when the protocol has returned for '/', the mounts are those of exactly the
\* datasets of the pool whose canMount is 'noauto' or true, in ascending order
\* of mount point; and for another mount point, the one mount of the pool and
\* dataset of the metadata.
C18_ZfsProtocolOrder ==
    /\ \A k \in 1..Len(cmds) :
           (cmds[k].cmd \in ZfsCmds /\ cmds[k].rc # 0) =>
               \A j \in (k + 1)..Len(cmds) :
                   cmds[j].cmd \in {"umount", "umount -l"}
    /\ InProtocol =>
           LET c == ProtocolCmds
               key == IF MarkedEncrypted(partition) THEN 1 ELSE 0
               mounts == SubSeq(c, 2 + key, Len(c))
           IN  /\ c[1].arg = PoolOf(partition).poolName
               /\ (key = 1 /\ Len(c) >= 2) =>
                      c[2].cmd = "zfs load-key" /\ c[2].arg = PoolOf(partition).poolName
               /\ \A i \in 1..Len(mounts) : mounts[i].cmd = "zfs mount"
               /\ \A i, j \in 1..Len(mounts) :
                      i < j => StrLeq(mounts[i].target, mounts[j].target)
               /\ partition.mountPoint = Root =>
                      /\ \A i \in 1..Len(mounts) :
                             \E d \in RootDatasets(partition) :
                                 mounts[i].arg = << d.zpool, d.dsName >>
                      /\ pc = "loop" =>
                             /\ Len(mounts) = Cardinality(RootDatasets(partition))
                             /\ \A d \in RootDatasets(partition) :
                                    \E i \in 1..Len(mounts) :
                                        mounts[i].arg = << d.zpool, d.dsName >>
               /\ partition.mountPoint # Root =>
                      /\ Len(mounts) <= 1
                      /\ pc = "loop" => Len(mounts) = 1
                      /\ \A i \in 1..Len(mounts) :
                             mounts[i].arg = << PoolOf(partition).poolName,
                                                PoolOf(partition).dsName >>

\* the pool metadata has no entry for the mount point of the partition: it
\* is missing, empty, or about other mount points
NoPoolFor(p) ==
    \A zp \in Elems(Get(globalstorage, "zfsPoolInfo", <<>>)) : zp.mountpoint # p.mountPoint

\* mount_zfs() has been called for the partition
ZfsCalled ==
    /\ partition # NoPartition
    /\ partition.mountPoint # <<>>
    /\ Lower(Get(partition, "fs", "")) = "zfs"
    /\ pc \notin {"run", "mount_partition"}
    /\ failure # "OSError"

\* C19: when the pool metadata has no entry for the mount point of a ZFS
\* partition, mount_zfs() fails with the internal-error failure, no zpool or
\* zfs command is issued, and run() ends in failure after its rollback.
C19_ZfsPrecondition ==
    (ZfsCalled /\ NoPoolFor(partition)) =>
        /\ failure = "Internal error mounting zfs datasets"
        /\ \A k \in 1..Len(cmds) : cmds[k].cmd \notin ZfsCmds
        /\ pc \in {"except", "err", "done"}
        /\ pc = "done" => result = "Exception" /\ RollbackDone

\* every 'umount -l' of rollback comes right after a 'umount' of the same
\* pass on the same directory that returned nonzero, and every 'umount' of
\* rollback that returned nonzero is followed by that 'umount -l'
NormalThenLazy ==
    \A k \in 1..Len(cmds) :
        IsRollbackUmount(cmds[k]) =>
            /\ cmds[k].cmd = "umount -l" =>
                   /\ k > 1
                   /\ cmds[k - 1].cmd = "umount"
                   /\ cmds[k - 1].by = cmds[k].by
                   /\ cmds[k - 1].target = cmds[k].target
                   /\ cmds[k - 1].rc # 0
            /\ (cmds[k].cmd = "umount" /\ cmds[k].rc # 0) =>
                   /\ k < Len(cmds)
                   /\ cmds[k + 1].cmd = "umount -l"
                   /\ cmds[k + 1].target = cmds[k].target
            /\ (cmds[k].cmd = "umount" /\ cmds[k].rc = 0 /\ k < Len(cmds)) =>
                   cmds[k + 1].cmd # "umount -l"

\* a step of rollback that sends a command sends 'umount' first, to an entry
\* of the ledger that is mounted; the result of run() is set once, at its
\* end, and the message of the failure is the one that started the rollback
RollbackStep ==
    /\ (/\ Len(cmds') > Len(cmds)
        /\ IsRollbackUmount(cmds'[Len(cmds) + 1])) =>
           /\ pc = "err"
           /\ cmds'[Len(cmds) + 1].cmd = "umount"
           /\ TargetOf(cmds'[Len(cmds) + 1]) \in Elems(mounted)
           /\ cmds'[Len(cmds) + 1].target \in Elems(active_mounts)
    /\ result' # result => result = "" /\ pc' = "done"
    /\ (failure # "" /\ pc \in {"err", "except"}) => failure' = failure

\* the successful mounts on a directory before the k-th command
MountsBefore(k, dir) ==
    Cardinality({j \in 1..(k - 1) : IsAnyMount(cmds[j]) /\ TargetOf(cmds[j]) = dir})

\* the successful unmounts of a directory before the k-th command
UmountsBefore(k, dir) ==
    Cardinality({j \in 1..(k - 1) :
                    /\ cmds[j].cmd \in {"umount", "umount -l"}
                    /\ cmds[j].rc = 0
                    /\ TargetOf(cmds[j]) = dir})

\* C20 as claimed: rollback sends a command only to a ledger entry that is
\* mounted; it sends 'umount' first, and 'umount -l' if and only if that
\* 'umount' has returned nonzero; the pass of run() sends no command to a
\* directory on which a command of the pass of mount_partition() succeeded;
\* and run() ends in failure once.
C20_DoubleRollback ==
    /\ [](/\ NormalThenLazy
          /\ \A k \in 1..Len(cmds) :
                 IsRunUmount(cmds[k]) =>
                     \A j \in 1..(k - 1) :
                         (/\ IsRollbackUmount(cmds[j])
                          /\ cmds[j].by = "mount_partition"
                          /\ cmds[j].rc = 0) =>
                             TargetOf(cmds[j]) # TargetOf(cmds[k])
          /\ result = "Exception" => failure # "")
    /\ [][RollbackStep]_vars

\* C20, amended: as above, but the pass of run() sends no command to a
\* directory that the pass of mount_partition() has left without a mount: a
\* directory mounted twice is still a mount point after one successful
\* unmount, and is visited again.
C20_DoubleRollbackUnlessStacked ==
    /\ [](/\ NormalThenLazy
          /\ \A k \in 1..Len(cmds) :
                 IsRunUmount(cmds[k]) =>
                     MountsBefore(k, TargetOf(cmds[k])) > UmountsBefore(k, TargetOf(cmds[k]))
          /\ result = "Exception" => failure # "")
    /\ [][RollbackStep]_vars

\* run() has failed after both passes: the first has unmounted a directory
\* with 'umount -l' after a failed 'umount', the second has sent nothing,
\* and the ledger has an entry that was never mounted
C20_Witness ==
    /\ result = "Exception"
    /\ err_caller = "run"
    /\ \E k \in 2..Len(cmds) :
           /\ cmds[k].cmd = "umount -l"
           /\ cmds[k].by = "mount_partition"
           /\ cmds[k].rc = 0
    /\ PassUmounts("run") = <<>>
    /\ \E i \in 1..Len(active_mounts) : ~ MountedOnce(active_mounts[i])

\* the directory a is a strict path ancestor of the directory d
StrictAncestor(a, d) == a # d /\ AtOrUnder(d, a)

\* C21: of two successful mounts of a run at the directories A and D, with A
\* a strict path ancestor of D, the mount at A is the earlier one: no mount
\* is made on an ancestor of a directory that has been mounted on already.
C21_NoShadowing ==
    \A i \in 1..Len(cmds), j \in 1..Len(cmds) :
        (/\ i < j
         /\ IsAnyMount(cmds[i])
         /\ IsAnyMount(cmds[j])) =>
            ~ StrictAncestor(TargetOf(cmds[j]), TargetOf(cmds[i]))

====
